---- MODULE Spec2Model ----
(***************************************************************************)
(* Model of examples/coreAPI/legacy-encode (legacy-encode.cpp, main):      *)
(* argument parsing and setup, the encode loop (frame load,                *)
(* MFXVideoENCODE_EncodeFrameAsync, the switch on the returned status,     *)
(* MFXVideoCORE_SyncOperation, WriteEncodedStream, the frame counter) and  *)
(* the cleanup at label end.                                               *)
(***************************************************************************)
EXTENDS Integers, Sequences, FiniteSets, TLC

\* ---------------------------------------------------------------- bounds
MaxFrames == 3          \* largest number of whole frames in the source
PipelineDepth == 2      \* K: most frames the encoder buffers internally
MaxStall == 2           \* most non-progress statuses returned while draining

\* ---------------------------------------------------------------- values
PoolSize_NoSpare == PipelineDepth
PoolSize == PipelineDepth + 1      \* encRequest.NumFrameSuggested
NULL == -1                         \* null surface pointer
MFX_ERR_NOT_FOUND == -9            \* GetFreeSurfaceIndex: no free surface
NoSync == 0                        \* mfxSyncPoint syncp = {}
BITSTREAM_BUFFER_SIZE == 2000000

\* the concrete scenario of the specification: frames in the source, and a
\* pool large enough for the frames its engine keeps pending
ScenFrames == 10
ScenPoolSize == (ScenFrames \div 2) + 1

MFX_ERR_NONE == "MFX_ERR_NONE"
MFX_ERR_NOT_ENOUGH_BUFFER == "MFX_ERR_NOT_ENOUGH_BUFFER"
MFX_ERR_MORE_DATA == "MFX_ERR_MORE_DATA"
MFX_ERR_DEVICE_LOST == "MFX_ERR_DEVICE_LOST"
MFX_WRN_DEVICE_BUSY == "MFX_WRN_DEVICE_BUSY"
MFX_ERR_UNKNOWN == "MFX_ERR_UNKNOWN"
MFX_ERR_ABORTED == "MFX_ERR_ABORTED"
MFX_WRN_IN_EXECUTION == "MFX_WRN_IN_EXECUTION"

\* statuses with a case label of their own in the switch
RecognizedStatuses ==
    {MFX_ERR_NONE, MFX_ERR_NOT_ENOUGH_BUFFER, MFX_ERR_MORE_DATA,
     MFX_ERR_DEVICE_LOST, MFX_WRN_DEVICE_BUSY}
\* statuses that reach the default label
UnknownStatuses == {MFX_ERR_UNKNOWN, MFX_ERR_ABORTED}
\* statuses that neither produce output nor end the loop while draining
StallStatuses == {MFX_ERR_NOT_ENOUGH_BUFFER, MFX_ERR_DEVICE_LOST, MFX_WRN_DEVICE_BUSY}
\* results of MFXVideoCORE_SyncOperation: ready, timed out, failed
SyncResults == {MFX_ERR_NONE, MFX_WRN_IN_EXECUTION, MFX_ERR_ABORTED}
Resources == {"session", "bitstream", "pool", "files", "accel"}

\* how far the setup got: a VERIFY failed after the files were opened, after
\* the session and accelerator were created, after the buffers were
\* allocated, or nothing failed
SetupStages == {"open", "session", "init", "pool", "ok"}
SetupAcquired(stage) ==
    IF stage = "open" THEN {}
    ELSE IF stage = "session" THEN {"files"}
    ELSE IF stage = "init" THEN {"files", "session", "accel"}
    ELSE Resources

VARIABLES
    pc,             \* position in main
    isDraining, isStillGoing, framenum, sts, syncp, nIndex, encSurfaceIn,
    bsLen,          \* bitstream.DataLength (units held in the buffer)
    bsMaxLength,    \* bitstream.MaxLength
    surfFrame,      \* surface pool: frame number held by each slot, 0 = none
    poolSize,       \* number of surfaces in encSurfPool
    srcLen, srcPos, \* frame source: frames in the file, frames read so far
    encHeld,        \* encoder: surfaces accepted and not yet output (locked)
    mock,           \* the encoder is the scripted engine of the scenario
    acquired,       \* resources obtained by the setup
    released,       \* times each resource was released
    reported,       \* frame count printed at end (-1 before)
    exitCode,       \* return value of main (-1 while running)
    \* ---- history of the run
    readRes,        \* outcome of the frame read of the current iteration
    readAttempts,   \* calls of ReadRawFrame (= surfaces acquired)
    lastSub, prevSub,       \* arguments of the last two submissions
    encSts, prevEncSts,     \* statuses returned by the last two submissions
    submissions,    \* calls of EncodeFrameAsync
    drainIters,     \* submissions made while draining
    drainStall,     \* of those, how many returned a non-progress status
    tokIssued,      \* sync tokens produced so far (token ids 1..tokIssued)
    lastWaited,     \* highest token id handed to SyncOperation
    staleWait,      \* a token was waited on a second time
    syncCalls,      \* calls of SyncOperation
    waitsOK,        \* of those, how many returned MFX_ERR_NONE
    writeCalls,     \* calls of WriteEncodedStream
    sinkWrites,     \* of those, how many succeeded
    unitsWritten,   \* of those, how many carried a completed unit
    events,         \* conditions met so far (faults, end-of-run statuses)
    subAfter        \* conditions that were followed by a submission

vars == <<pc, isDraining, isStillGoing, framenum, sts, syncp, nIndex,
          encSurfaceIn, bsLen, bsMaxLength, surfFrame, poolSize, srcLen,
          srcPos, encHeld, mock, acquired, released, reported, exitCode,
          readRes, readAttempts, lastSub, prevSub, encSts, prevEncSts,
          submissions, drainIters, drainStall, tokIssued, lastWaited,
          staleWait, syncCalls, waitsOK, writeCalls, sinkWrites, unitsWritten,
          events, subAfter>>

progVars == <<isDraining, isStillGoing, framenum, sts, syncp, nIndex,
              encSurfaceIn, bsLen, surfFrame, srcPos, encHeld>>
\* fixed once the loop runs
setupVars == <<bsMaxLength, poolSize, srcLen, mock, acquired>>
exitVars == <<released, reported, exitCode>>
subVars == <<lastSub, prevSub, encSts, prevEncSts, submissions, drainIters,
             drainStall, tokIssued>>
syncVars == <<lastWaited, staleWait, syncCalls, waitsOK>>
sinkVars == <<writeCalls, sinkWrites, unitsWritten>>
histVars == <<readRes, readAttempts, subVars, syncVars, sinkVars, events,
              subAfter>>

NoSub == [surf |-> NULL, frame |-> 0, reads |-> 0, any |-> FALSE]

Slots == 0 .. (poolSize - 1)

\* ------------------------------------------------------------ helpers
RECURSIVE SeqToSet(_)
SeqToSet(s) == IF s = <<>> THEN {} ELSE {Head(s)} \cup SeqToSet(Tail(s))

\* Data.Locked of a slot: the encoder holds the surface
Locked(held, i) == i \in SeqToSet(held)

\* first slot whose Locked is 0, else MFX_ERR_NOT_FOUND
GetFreeSurfaceIndex(held) ==
    IF \E i \in Slots : ~Locked(held, i)
    THEN CHOOSE i \in Slots : ~Locked(held, i) /\ \A j \in Slots : j < i => Locked(held, j)
    ELSE MFX_ERR_NOT_FOUND

\* ReadRawFrame: a whole frame is left -> MFX_ERR_NONE; none left ->
\* MFX_ERR_MORE_DATA; an I/O fault can hit any read
ReadRawFrame(pos, len) ==
    (IF pos < len THEN {"Filled"} ELSE {"EndOfStream"}) \cup {"ReadError"}

ReadStatus(r) ==
    IF r = "Filled" THEN MFX_ERR_NONE
    ELSE IF r = "EndOfStream" THEN MFX_ERR_MORE_DATA
    ELSE MFX_ERR_UNKNOWN

\* while (isStillGoing == true) { if (isDraining == false) ...
LoopTarget_AlwaysLoads(going, draining) ==
    IF ~going THEN "end" ELSE "load"
LoopTarget(going, draining) ==
    IF ~going THEN "end" ELSE IF draining THEN "submit" ELSE "load"

\* if (sts != MFX_ERR_NONE) isDraining = true
DrainingAfterRead_OnlyEndOfStream(s, draining) ==
    IF s = MFX_ERR_MORE_DATA THEN TRUE ELSE draining
DrainingAfterRead(s, draining) ==
    IF s # MFX_ERR_NONE THEN TRUE ELSE draining

\* surface argument of MFXVideoENCODE_EncodeFrameAsync
SurfaceArg_AlwaysSurface(draining, surf) == surf
SurfaceArg(draining, surf) == IF draining THEN NULL ELSE surf

\* the encoder: what EncodeFrameAsync may answer to a submission, given the
\* surfaces it already holds
Accept(held, surf) == IF surf = NULL THEN held ELSE Append(held, surf)

EncodeFrameAsync(surf, held) ==
    LET a == Accept(held, surf) IN
      \* output available: the oldest buffered frame is returned
      (IF Len(a) > 0
         THEN {[sts |-> MFX_ERR_NONE, tok |-> TRUE, held |-> Tail(a)]}
         ELSE {})
      \* frame accepted and buffered, no output yet
      \cup (IF surf # NULL /\ Len(a) <= PipelineDepth
              THEN {[sts |-> s, tok |-> FALSE, held |-> a] :
                       s \in {MFX_ERR_NONE, MFX_ERR_MORE_DATA}}
              ELSE {})
      \* null surface: nothing (more) to give
      \cup (IF surf = NULL
              THEN {[sts |-> s, tok |-> FALSE, held |-> held] :
                       s \in {MFX_ERR_NONE, MFX_ERR_MORE_DATA}}
              ELSE {})
      \* submission not taken
      \cup {[sts |-> s, tok |-> FALSE, held |-> held] :
               s \in StallStatuses \cup UnknownStatuses}

\* the scripted engine of the concrete scenario: it accepts every
\* submission, answers Complete with a token on submissions 1, 3, 5, ...,
\* Complete without one on the others, and NeedMoreInput to a null surface
\* when nothing is pending; n is the number of the submission
MockEngine(surf, held, n) ==
    LET a == Accept(held, surf) IN
      IF surf = NULL /\ held = <<>>
        THEN {[sts |-> MFX_ERR_MORE_DATA, tok |-> FALSE, held |-> held]}
      ELSE IF n % 2 = 1
        THEN {[sts |-> MFX_ERR_NONE, tok |-> TRUE, held |-> Tail(a)]}
      ELSE {[sts |-> MFX_ERR_NONE, tok |-> FALSE, held |-> a]}

\* a draining submission that neither yields output nor ends the loop
IsStall(o) == o.sts \in StallStatuses \/ (o.sts = MFX_ERR_NONE /\ ~o.tok)

\* the switch on sts: value of isStillGoing after the switch
StillGoingAfter_DefaultContinues(s, draining, going) ==
    IF s = MFX_ERR_MORE_DATA THEN (IF draining THEN FALSE ELSE going)
    ELSE going
StillGoingAfter_MoreDataIgnored(s, draining, going) ==
    IF s \in RecognizedStatuses THEN going ELSE FALSE
StillGoingAfter_MoreDataAlwaysStops(s, draining, going) ==
    IF s = MFX_ERR_MORE_DATA THEN FALSE
    ELSE IF s \in RecognizedStatuses THEN going ELSE FALSE
StillGoingAfter_BufferStops(s, draining, going) ==
    IF s = MFX_ERR_NOT_ENOUGH_BUFFER THEN FALSE
    ELSE IF s = MFX_ERR_MORE_DATA THEN (IF draining THEN FALSE ELSE going)
    ELSE IF s \in RecognizedStatuses THEN going ELSE FALSE
StillGoingAfter(s, draining, going) ==
    IF s = MFX_ERR_NONE THEN going
    ELSE IF s = MFX_ERR_NOT_ENOUGH_BUFFER THEN going
    ELSE IF s = MFX_ERR_MORE_DATA THEN (IF draining THEN FALSE ELSE going)
    ELSE IF s = MFX_ERR_DEVICE_LOST THEN going
    ELSE IF s = MFX_WRN_DEVICE_BUSY THEN going
    ELSE FALSE

\* case MFX_ERR_NONE: if (syncp)
OutputAvailable_Never(s, sp) == FALSE
OutputAvailable(s, sp) == s = MFX_ERR_NONE /\ sp # NoSync

\* VERIFY(MFX_ERR_NONE == sts, ...) after the wait: go on, or goto end
AfterSync_FailureIgnored(r) == "write"
AfterSync(r) == IF r = MFX_ERR_NONE THEN "write" ELSE "end"

\* the releases at end: each resource that is held is released
ReleasedAtEnd_PoolKept(rel, acq) ==
    [r \in Resources |-> IF r \in acq /\ r # "pool" THEN rel[r] + 1 ELSE rel[r]]
ReleasedAtEnd(rel, acq) ==
    [r \in Resources |-> IF r \in acq THEN rel[r] + 1 ELSE rel[r]]

\* ---------------------------------------------------------------- Init
\* the locals of main as declared, for a source of len frames
InitWith(lens, pool, scripted) ==
    /\ pc = "parse"
    /\ isDraining = FALSE
    /\ isStillGoing = TRUE
    /\ framenum = 0
    /\ sts = MFX_ERR_NONE
    /\ syncp = NoSync
    /\ nIndex = -1
    /\ encSurfaceIn = NULL
    /\ bsLen = 0
    /\ bsMaxLength = 0
    /\ poolSize = pool
    /\ surfFrame = [i \in 0 .. (pool - 1) |-> 0]
    /\ srcLen \in lens
    /\ srcPos = 0
    /\ encHeld = <<>>
    /\ mock = scripted
    /\ acquired = {}
    /\ released = [r \in Resources |-> 0]
    /\ reported = -1
    /\ exitCode = -1
    /\ readRes = "none"
    /\ readAttempts = 0
    /\ lastSub = NoSub
    /\ prevSub = NoSub
    /\ encSts = "none"
    /\ prevEncSts = "none"
    /\ submissions = 0
    /\ drainIters = 0
    /\ drainStall = 0
    /\ tokIssued = 0
    /\ lastWaited = 0
    /\ staleWait = FALSE
    /\ syncCalls = 0
    /\ waitsOK = 0
    /\ writeCalls = 0
    /\ sinkWrites = 0
    /\ unitsWritten = 0
    /\ events = {}
    /\ subAfter = {}

Init == InitWith(0 .. MaxFrames, PoolSize, FALSE)

\* the concrete scenario: ten frames, the scripted engine
ScenInit == InitWith({ScenFrames}, ScenPoolSize, TRUE)

\* ------------------------------------------------------------- actions
\* if (ParseArgsAndValidate(...) == false) { Usage(); return 1; }
ParseArgs ==
    /\ pc = "parse"
    /\ \E ok \in BOOLEAN :
         /\ pc' = IF ok THEN "setup" ELSE "exit"
         /\ exitCode' = IF ok THEN exitCode ELSE 1
         /\ events' = IF ok THEN events ELSE events \cup {"ParseFail"}
    /\ UNCHANGED <<progVars, setupVars, released, reported>>
    /\ UNCHANGED <<readRes, readAttempts, subVars, syncVars, sinkVars, subAfter>>

\* fopen, MFXLoad .. MFXCreateSession, InitAcceleratorHandle, Query, Init,
\* QueryIOSurf, bitstream and surface pool allocation; a failed VERIFY
\* jumps to end with what was obtained so far
Setup ==
    /\ pc = "setup"
    /\ \E stage \in SetupStages :
         /\ acquired' = SetupAcquired(stage)
         /\ bsMaxLength' = IF stage \in {"pool", "ok"}
                             THEN BITSTREAM_BUFFER_SIZE ELSE bsMaxLength
         /\ pc' = IF stage = "ok" THEN "while" ELSE "end"
         /\ events' = IF stage = "ok" THEN events ELSE events \cup {"SetupFail"}
    /\ UNCHANGED <<progVars, poolSize, srcLen, mock, exitVars>>
    /\ UNCHANGED <<readRes, readAttempts, subVars, syncVars, sinkVars, subAfter>>

\* while (isStillGoing == true) and if (isDraining == false)
LoopHead ==
    /\ pc = "while"
    /\ pc' = LoopTarget(isStillGoing, isDraining)
    /\ readRes' = "none"
    /\ UNCHANGED <<progVars, setupVars, exitVars>>
    /\ UNCHANGED <<readAttempts, subVars, syncVars, sinkVars, events, subAfter>>

\* GetFreeSurfaceIndex, ReadRawFrame, if (sts != MFX_ERR_NONE) isDraining = true
LoadFrame ==
    /\ pc = "load"
    /\ \E r \in ReadRawFrame(srcPos, srcLen) :
         LET idx == GetFreeSurfaceIndex(encHeld) IN
         /\ nIndex' = idx
         /\ encSurfaceIn' = idx
         /\ sts' = ReadStatus(r)
         /\ readRes' = r
         /\ srcPos' = IF r = "Filled" THEN srcPos + 1 ELSE srcPos
         /\ surfFrame' = IF r = "Filled" /\ idx \in Slots
                           THEN [surfFrame EXCEPT ![idx] = srcPos + 1]
                           ELSE surfFrame
         /\ isDraining' = DrainingAfterRead(ReadStatus(r), isDraining)
         /\ events' = IF r = "ReadError" THEN events \cup {"ReadError"} ELSE events
    /\ readAttempts' = readAttempts + 1
    /\ pc' = "submit"
    /\ UNCHANGED <<isStillGoing, framenum, syncp, bsLen, encHeld, setupVars,
                   exitVars>>
    /\ UNCHANGED <<subVars, syncVars, sinkVars, subAfter>>

\* sts = MFXVideoENCODE_EncodeFrameAsync(session, NULL, surface, &bitstream, &syncp)
Submit ==
    /\ pc = "submit"
    /\ LET surf == SurfaceArg(isDraining, encSurfaceIn) IN
       \E o \in (IF mock THEN MockEngine(surf, encHeld, submissions + 1)
                         ELSE EncodeFrameAsync(surf, encHeld)) :
         /\ (~mock /\ isDraining /\ IsStall(o)) => drainStall < MaxStall
         /\ sts' = o.sts
         /\ encHeld' = o.held
         \* a new token is stored through &syncp; without one the encoder
         \* either stores a null sync point or leaves the variable as it was
         /\ IF o.tok
              THEN /\ syncp' = tokIssued + 1
                   /\ tokIssued' = tokIssued + 1
              ELSE /\ syncp' \in {NoSync, syncp}
                   /\ tokIssued' = tokIssued
         /\ prevSub' = lastSub
         /\ lastSub' = [surf |-> surf,
                        frame |-> IF surf \in Slots THEN surfFrame[surf] ELSE 0,
                        reads |-> readAttempts,
                        any |-> TRUE]
         /\ prevEncSts' = encSts
         /\ encSts' = o.sts
         /\ drainIters' = IF isDraining THEN drainIters + 1 ELSE drainIters
         /\ drainStall' = IF isDraining /\ IsStall(o) THEN drainStall + 1 ELSE drainStall
    /\ submissions' = submissions + 1
    /\ subAfter' = subAfter \cup events
    /\ pc' = "switch"
    /\ UNCHANGED <<isDraining, isStillGoing, framenum, nIndex, encSurfaceIn,
                   bsLen, surfFrame, srcPos, setupVars, exitVars>>
    /\ UNCHANGED <<readRes, readAttempts, syncVars, sinkVars, events>>

\* switch (sts)
Dispatch ==
    /\ pc = "switch"
    /\ isStillGoing' = StillGoingAfter(sts, isDraining, isStillGoing)
    /\ pc' = IF OutputAvailable(sts, syncp) THEN "sync" ELSE "while"
    /\ events' = events
                   \cup (IF sts = MFX_ERR_DEVICE_LOST THEN {"DeviceLost"} ELSE {})
                   \cup (IF sts \notin RecognizedStatuses THEN {"Unknown"} ELSE {})
                   \cup (IF sts = MFX_ERR_MORE_DATA /\ isDraining
                           THEN {"DrainMoreData"} ELSE {})
    /\ UNCHANGED <<isDraining, framenum, sts, syncp, nIndex, encSurfaceIn,
                   bsLen, surfFrame, srcPos, encHeld, setupVars, exitVars>>
    /\ UNCHANGED <<readRes, readAttempts, subVars, syncVars, sinkVars, subAfter>>

\* sts = MFXVideoCORE_SyncOperation(session, syncp, WAIT_100_MILLISECONDS);
\* VERIFY(MFX_ERR_NONE == sts, ...) jumps to end on failure
SyncOperation ==
    /\ pc = "sync"
    /\ \E r \in SyncResults :
         /\ sts' = r
         /\ pc' = AfterSync(r)
         /\ bsLen' = IF r = MFX_ERR_NONE /\ syncp > lastWaited THEN 1 ELSE bsLen
         /\ waitsOK' = IF r = MFX_ERR_NONE THEN waitsOK + 1 ELSE waitsOK
         /\ events' = IF r = MFX_ERR_NONE THEN events ELSE events \cup {"SyncFail"}
    /\ syncCalls' = syncCalls + 1
    /\ staleWait' = (staleWait \/ syncp <= lastWaited)
    /\ lastWaited' = IF syncp > lastWaited THEN syncp ELSE lastWaited
    /\ UNCHANGED <<isDraining, isStillGoing, framenum, syncp, nIndex,
                   encSurfaceIn, surfFrame, srcPos, encHeld, setupVars, exitVars>>
    /\ UNCHANGED <<readRes, readAttempts, subVars, sinkVars, subAfter>>

\* WriteEncodedStream(bitstream, sink): fwrite of DataLength bytes, then
\* DataLength = 0; the result of the write is not looked at
WriteEncodedStream ==
    /\ pc = "write"
    /\ \E ok \in BOOLEAN :
         /\ sinkWrites' = IF ok THEN sinkWrites + 1 ELSE sinkWrites
         /\ unitsWritten' = IF ok /\ bsLen > 0 THEN unitsWritten + 1 ELSE unitsWritten
         /\ events' = IF ok THEN events ELSE events \cup {"SinkFail"}
    /\ writeCalls' = writeCalls + 1
    /\ bsLen' = 0
    /\ pc' = "count"
    /\ UNCHANGED <<isDraining, isStillGoing, framenum, sts, syncp, nIndex,
                   encSurfaceIn, surfFrame, srcPos, encHeld, setupVars, exitVars>>
    /\ UNCHANGED <<readRes, readAttempts, subVars, syncVars, subAfter>>

\* framenum++; break
CountFrame ==
    /\ pc = "count"
    /\ framenum' = framenum + 1
    /\ pc' = "while"
    /\ UNCHANGED <<isDraining, isStillGoing, sts, syncp, nIndex, encSurfaceIn,
                   bsLen, surfFrame, srcPos, encHeld, setupVars, exitVars>>
    /\ UNCHANGED histVars

\* end: printf("Encoded %d frames"), release what is held, return 0
Cleanup ==
    /\ pc = "end"
    /\ reported' = framenum
    /\ released' = ReleasedAtEnd(released, acquired)
    /\ exitCode' = 0
    /\ pc' = "exit"
    /\ UNCHANGED <<progVars, setupVars>>
    /\ UNCHANGED histVars

Next ==
    \/ ParseArgs
    \/ Setup
    \/ LoopHead
    \/ LoadFrame
    \/ Submit
    \/ Dispatch
    \/ SyncOperation
    \/ WriteEncodedStream
    \/ CountFrame
    \/ Cleanup

Spec == Init /\ [][Next]_vars

\* the run of the concrete scenario
ScenarioSpec == ScenInit /\ [][Next]_vars

TypeOK ==
    /\ pc \in {"parse", "setup", "while", "load", "submit", "switch", "sync",
               "write", "count", "end", "exit"}
    /\ isDraining \in BOOLEAN /\ isStillGoing \in BOOLEAN
    /\ framenum \in Nat /\ syncp \in Nat /\ bsLen \in {0, 1}
    /\ srcPos \in 0 .. srcLen
    /\ ~mock => Len(encHeld) <= PipelineDepth
    /\ nIndex \in Slots \cup {-1}
    /\ exitCode \in {-1, 0, 1}

\* ---------------------------------------------------------------- claims

C2_BusyRetryIdentical ==
    (pc = "switch" /\ prevEncSts = MFX_WRN_DEVICE_BUSY)
        => /\ lastSub.surf = prevSub.surf
           /\ lastSub.frame = prevSub.frame
           /\ lastSub.reads = prevSub.reads

\* C3 (as stated): a DeviceUnavailable status ends the loop in that
\* iteration and no submission follows it.
C3_DeviceLostFatal ==
    "DeviceLost" \in events => (~isStillGoing /\ "DeviceLost" \notin subAfter)

\* C4 (as stated): a ReadError goes to Done without entering Draining and
\* without any further submission.
C4_ReadErrorFatal ==
    "ReadError" \in events => (~isDraining /\ "ReadError" \notin subAfter)

\* C5 (as stated): after a failed sink write no submission is issued, the
\* failed unit is not counted, and every resource is released exactly once.
C5_SinkFailureFatal ==
    /\ "SinkFail" \in events
          => ("SinkFail" \notin subAfter /\ framenum <= sinkWrites)
    /\ ("SinkFail" \in events /\ pc = "exit")
          => \A r \in Resources : released[r] = 1

\* C6: at most one sync token is live; a submission is issued only when no
\* token is live and the bitstream buffer is empty; a live token is either
\* about to be waited on or its wait failed and the loop was left.
C6_SingleInFlight ==
    /\ tokIssued - lastWaited <= 1
    /\ pc = "submit" => (tokIssued = lastWaited /\ bsLen = 0)
    /\ tokIssued > lastWaited => pc \in {"switch", "sync"}
    /\ bsLen > 0 => pc = "write"

\* C6 witness: a submission is about to be issued after an earlier one
\* yielded a token that was waited on and written to the sink.
C6_Witness ==
    pc = "submit" /\ tokIssued >= 1 /\ sinkWrites >= 1 /\ submissions >= 1

\* C7 (as stated): no token is waited on twice, and nothing is counted
\* without a token of its own.
C7_TokenConsumedOnce == ~staleWait /\ framenum <= tokIssued

\* C8 (as stated): without a read fault Draining is entered after exactly N
\* successful reads, on read attempt N + 1; the frame count never exceeds N;
\* the reported count is the final count.
C8_FrameConservation ==
    /\ (isDraining /\ "ReadError" \notin events)
          => (srcPos = srcLen /\ readAttempts = srcLen + 1)
    /\ framenum <= srcLen
    /\ (pc = "exit" /\ exitCode = 0) => reported = framenum

\* C9: a status outside the recognized set stops the loop in the iteration
\* that received it: no wait, no write, no count and no further submission
\* follow it, in Feeding and in Draining alike; a recognized status other
\* than NeedMoreInput-while-Draining leaves isStillGoing as it was.
C9_UnknownFatal ==
    /\ "Unknown" \in events
          => /\ ~isStillGoing
             /\ "Unknown" \notin subAfter
             /\ pc \in {"while", "end", "exit"}
             /\ encSts \in UnknownStatuses
    /\ (encSts \in RecognizedStatuses /\ pc \in {"while", "sync", "write", "count"}
          /\ ~(encSts = MFX_ERR_MORE_DATA /\ isDraining))
          => isStillGoing

\* C9 witness: an unrecognized status arrived while Feeding, after an
\* earlier accepted frame, and the program has finished.
C9_Witness ==
    /\ pc = "exit" /\ "Unknown" \in events /\ ~isDraining
    /\ submissions >= 2 /\ lastSub.surf # NULL

\* C10: the surface argument of a submission is the null marker exactly when
\* isDraining holds at the call; the submission of the iteration whose read
\* reported EndOfStream carries the null marker.
C10_NullWhenDraining ==
    /\ pc = "switch" => (lastSub.surf = NULL <=> isDraining)
    /\ (pc = "switch" /\ readRes \in {"EndOfStream", "ReadError"})
          => (lastSub.surf = NULL /\ lastSub.frame = 0)
    /\ (pc = "switch" /\ readRes = "Filled")
          => (lastSub.surf = encSurfaceIn /\ lastSub.frame = srcPos)

\* C10 witness: the read reported EndOfStream after a frame had been
\* submitted, and this iteration's submission carried the null marker.
C10_Witness ==
    /\ pc = "switch" /\ readRes = "EndOfStream"
    /\ lastSub.surf = NULL /\ prevSub.any /\ prevSub.surf # NULL

\* C11: a completion wait that does not return MFX_ERR_NONE is fatal: the
\* wait is not repeated, nothing is written for it, nothing is counted for
\* it, no submission follows it and control is at end (or past it).
C11_WaitFailureFatal ==
    /\ syncCalls <= waitsOK + 1
    /\ "SyncFail" \in events
          => /\ pc \in {"end", "exit"}
             /\ "SyncFail" \notin subAfter
             /\ syncCalls = waitsOK + 1
             /\ writeCalls = waitsOK
             /\ framenum = waitsOK
             /\ bsLen = 0

\* C11 witness: after one unit was waited for, written and counted, a later
\* wait failed and the program has finished.
C11_Witness ==
    /\ pc = "exit" /\ "SyncFail" \in events /\ waitsOK >= 1
    /\ tokIssued = waitsOK + 1 /\ ~staleWait

\* C12: NeedMoreInput starts no wait, write or count; answered to a frame
\* (Feeding) it leaves the loop running and Feeding, and the next iteration
\* reads the next frame; answered to a null surface (Draining) it stops the
\* loop and no submission follows.
C12_NeedMoreInput ==
    /\ encSts = MFX_ERR_MORE_DATA => pc \notin {"sync", "write", "count"}
    /\ (encSts = MFX_ERR_MORE_DATA /\ lastSub.surf # NULL /\ pc \in {"while", "load"})
          => (isStillGoing /\ ~isDraining)
    /\ (pc = "switch" /\ prevEncSts = MFX_ERR_MORE_DATA /\ prevSub.surf # NULL)
          => lastSub.reads = prevSub.reads + 1
    /\ "DrainMoreData" \in events
          => /\ ~isStillGoing
             /\ isDraining
             /\ "DrainMoreData" \notin subAfter
             /\ pc \in {"while", "end", "exit"}
             /\ encSts = MFX_ERR_MORE_DATA

\* C12 witness: NeedMoreInput was answered to a frame, the loop went on to
\* the end of the stream, NeedMoreInput was answered to the null surface and
\* the program has finished.
C12_Witness ==
    /\ pc = "exit" /\ "DrainMoreData" \in events
    /\ prevEncSts = MFX_ERR_MORE_DATA /\ prevSub.surf # NULL
    /\ lastSub.surf = NULL /\ lastSub.reads = prevSub.reads + 1
    /\ "ReadError" \notin events

\* the run met no read fault, no failed wait and no failed write
NoFault == events \cap {"ParseFail", "SetupFail", "ReadError", "SyncFail", "SinkFail"} = {}

C14_UnconditionalCleanup ==
    /\ exitCode = 1 <=> "ParseFail" \in events
    /\ "ParseFail" \in events
          => /\ pc = "exit" /\ acquired = {} /\ submissions = 0
             /\ \A r \in Resources : released[r] = 0
    /\ pc # "exit"
          => /\ exitCode = -1 /\ reported = -1
             /\ \A r \in Resources : released[r] = 0
    /\ (pc = "exit" /\ "ParseFail" \notin events)
          => /\ exitCode = 0
             /\ reported = framenum
             /\ \A r \in Resources : released[r] = (IF r \in acquired THEN 1 ELSE 0)
    /\ (pc = "exit" /\ "SetupFail" \notin events /\ "ParseFail" \notin events)
          => \A r \in Resources : released[r] = 1
    /\ (~isStillGoing \/ "SyncFail" \in events) => pc \in {"while", "end", "exit"}

\* C14 witness: the loop was ended by an unrecognized status after a unit
\* had been counted; the count was reported, everything was released once
\* and main returned 0.
C14_Witness ==
    /\ pc = "exit" /\ "Unknown" \in events /\ framenum >= 1
    /\ reported = framenum /\ exitCode = 0
    /\ \A r \in Resources : released[r] = 1

\* C15: InsufficientBuffer is ignored: the buffer capacity stays as set up,
\* the loop keeps running in the state it was in, no wait, write or count
\* is started, and while Feeding the next submission carries the next frame
\* read from the source (or the null surface at the end of the stream), not
\* the rejected one.
C15_InsufficientBufferIgnored ==
    /\ pc \in {"while", "load", "submit", "switch", "sync", "write", "count"}
          => bsMaxLength = BITSTREAM_BUFFER_SIZE
    /\ encSts = MFX_ERR_NOT_ENOUGH_BUFFER
          => /\ pc \in {"switch", "while", "load", "submit"}
             /\ isStillGoing
             /\ pc \in {"switch", "while"} => (isDraining <=> lastSub.surf = NULL)
    /\ (pc = "switch" /\ prevEncSts = MFX_ERR_NOT_ENOUGH_BUFFER /\ prevSub.surf # NULL)
          => /\ lastSub.reads = prevSub.reads + 1
             /\ (lastSub.surf = NULL \/ lastSub.frame = prevSub.frame + 1)
    /\ (pc = "switch" /\ prevEncSts = MFX_ERR_NOT_ENOUGH_BUFFER /\ prevSub.surf = NULL)
          => (lastSub.surf = NULL /\ lastSub.reads = prevSub.reads)

\* C15 witness: a frame was answered with InsufficientBuffer and the next
\* submission carries the following frame.
C15_Witness ==
    /\ pc = "switch" /\ prevEncSts = MFX_ERR_NOT_ENOUGH_BUFFER
    /\ prevSub.surf # NULL /\ lastSub.surf # NULL
    /\ lastSub.frame = prevSub.frame + 1 /\ framenum = 0 /\ writeCalls = 0

C17_CounterAccounting ==
    /\ pc \notin {"write", "count"}
          => (framenum = unitsWritten /\ unitsWritten = waitsOK)
    /\ pc = "write" => (waitsOK = framenum + 1 /\ writeCalls = framenum)
    /\ pc = "count" => (waitsOK = framenum + 1 /\ writeCalls = framenum + 1)

\* C18: the pipeline state only moves forward: once isDraining holds it
\* keeps holding, and from then on no surface is acquired and the source is
\* not read; once the loop is stopped it stays stopped and nothing more is
\* submitted; after the cleanup nothing runs.
C18_ForwardOnly ==
    [][ /\ isDraining
            => /\ isDraining'
               /\ readAttempts' = readAttempts
               /\ srcPos' = srcPos
               /\ nIndex' = nIndex
               /\ encSurfaceIn' = encSurfaceIn
               /\ surfFrame' = surfFrame
        /\ ~isStillGoing => (~isStillGoing' /\ submissions' = submissions)
        /\ pc = "end" => pc' = "exit"
        /\ pc # "exit" ]_vars

\* C18 witness: Draining was entered with frames left in the source (a read
\* fault), a Busy status was answered while Draining, and the next
\* submission was made without another read.
C18_Witness ==
    /\ pc = "switch" /\ isDraining /\ drainIters >= 2
    /\ prevEncSts = MFX_WRN_DEVICE_BUSY /\ prevSub.surf = NULL
    /\ srcPos < srcLen /\ lastSub.reads = prevSub.reads

====
